---- MODULE Spec2Model ----
(***************************************************************************)
(* Scoped lifecycle recorders of the training harness:                     *)
(*   CheckpointManager         (harness/determined/_checkpoint_manager.py) *)
(*   TrainingMetricManager     (harness/determined/_model_metric_manager.py)*)
(*   ValidationMetricManager   (harness/determined/_model_metric_manager.py)*)
(* One recorder instance is constructed, entered by a `with` statement,    *)
(* used by the body (complete / failed calls), and left through __exit__.  *)
(* Every request to the master is either acknowledged (the response has    *)
(* headers) or not; the clock never runs backwards.                        *)
(***************************************************************************)
EXTENDS Integers, Sequences, FiniteSets, TLC

VARIABLES
    kind,           \* which of the three classes this instance is
    experiment_id,  \* self.experiment_id
    trial_id,       \* self.trial_id
    start_time,     \* self.start_time (microseconds)
    state,          \* self.state
    storage_id,     \* self.storage_id (checkpoint only; "unset" before __enter__)
    slot,           \* position of the generator self._storage_ctx
    releases,       \* how often the generator was resumed from its yield
    now,            \* datetime.now(timezone.utc), microseconds
    ticks,          \* how often the clock has advanced
    pc,             \* position of the with statement that owns the recorder
    exc,            \* exception with which the body ended ("none": it returned)
    exitExc,        \* exception raised by __enter__ or __exit__ ("none": returned)
    nComplete,      \* complete() calls made by the body
    nFailed,        \* failed() calls made by the body
    exitValue,      \* what __exit__ returned ("unset": it has not returned)
    sent,           \* requests issued to the master, in order, with their outcome
    hparams,            \* EnvContext.hparams
    native_parallel,    \* experiment_config.native_parallel_enabled()
    slots_per_trial,    \* experiment_config.slots_per_trial()
    env_pc,             \* position of EnvContext.__init__
    env_error,          \* exception raised by EnvContext.__init__ ("none": none)
    batch_sizes,        \* (_per_slot_batch_size, _global_batch_size), <<>> unset
    warnings            \* warnings logged by _calculate_batch_sizes

\* The worker context (EnvContext).
envVars == <<hparams, native_parallel, slots_per_trial, env_pc, env_error,
             batch_sizes, warnings>>

\* One recorder and the with statement that owns it.
recorderVars == <<kind, experiment_id, trial_id, start_time, state, storage_id,
                  slot, releases, now, ticks, pc, exc, exitExc, exitValue,
                  nComplete, nFailed, sent>>

vars == <<recorderVars, envVars>>

----------------------------------------------------------------------------
(* Bounds of the model *)

MaxId == 2
MaxCalls == 2
MaxTicks == 2

----------------------------------------------------------------------------
(* Values *)

STATE_ACTIVE == "STATE_ACTIVE"
STATE_COMPLETED == "STATE_COMPLETED"
STATE_ERRORED == "STATE_ERRORED"

Kinds == {"checkpoint", "training", "validation"}

\* Steps by which the clock advances between two readings.
ClockSteps == {1, 999999}

\* strftime("%Y-%m-%dT%H:%M:%S.%fZ"): whole seconds, then six digits of
\* microseconds; a fixed-width text, represented by its two fields.
strftime(t) == <<t \div 1000000, t % 1000000>>

\* dict.get(key, default)
Get(d, k, default) == IF k \in DOMAIN d THEN d[k] ELSE default

\* The checkpoint_info mappings a caller passes to CheckpointManager.complete.
CheckpointInfos ==
    { [framework |-> "keras", format |-> "h5"],
      [framework |-> "keras"] }

\* The metric mappings a caller passes to complete: sets of <<name, value>>.
\* "np:0.5" is a framework numeric wrapper, "unconvertible" a value the
\* normalization cannot convert.
MetricInputs ==
    { {}, {<<"loss", "0.5">>}, {<<"loss", "np:0.5">>}, {<<"loss", "unconvertible">>} }

\* util.make_serializable: whether it converts the mapping, and its result.
CanSerialize(metrics) == \A kv \in metrics : kv[2] # "unconvertible"

make_serializable(metrics) ==
    { <<kv[1], IF kv[2] = "np:0.5" THEN "0.5" ELSE kv[2]>> : kv \in metrics }

\* storage.StorageManager._list_directory(storage_path): the resource manifest.
ListDirectory(sid) == {<<"weights", 10>>}

\* storage.StorageMetadata(storage_id, resources, framework, format)
StorageMetadata(sid, resources, framework, format) ==
    [storage_id |-> sid, resources |-> resources,
     framework |-> framework, format |-> format]

\* One request and its outcome: ack is "the response has headers".
Request(method, path, body, ack) ==
    [method |-> method, path |-> path, body |-> body, ack |-> ack]

----------------------------------------------------------------------------
(* Construction *)

\* The worker context the recorders run in: already constructed.
EnvConstructed ==
    /\ hparams = [global_batch_size |-> [type |-> "int", val |-> 16]]
    /\ native_parallel = FALSE
    /\ slots_per_trial = 4
    /\ env_pc = "constructed"
    /\ env_error = "none"
    /\ batch_sizes = <<4, 16>>
    /\ warnings = {}

Init ==
    /\ EnvConstructed
    /\ exitValue = "unset"
    /\ kind \in Kinds
    /\ experiment_id \in 1..MaxId
    /\ trial_id \in 1..MaxId
    /\ now = 0
    /\ ticks = 0
    /\ start_time = now
    /\ state = STATE_ACTIVE
    /\ storage_id = "unset"
    /\ slot = IF kind = "checkpoint" THEN "created" ELSE "absent"
    /\ releases = 0
    /\ pc = "constructed"
    /\ exc = "none"
    /\ exitExc = "none"
    /\ nComplete = 0
    /\ nFailed = 0
    /\ sent = <<>>

\* The clock advances while the recorder is alive.
Tick ==
    /\ pc \in {"constructed", "body", "exit"}
    /\ ticks < MaxTicks
    /\ ticks' = ticks + 1
    /\ \E d \in ClockSteps : now' = now + d
    /\ UNCHANGED <<kind, experiment_id, trial_id, start_time, state, storage_id,
                   slot, releases, pc, exc, exitExc, nComplete, nFailed, sent,
                   exitValue, envVars>>

----------------------------------------------------------------------------
(* The with statement and its body (the caller of the recorder) *)

\* An exception leaves the body: the with statement calls __exit__ with it.
Propagate(e) == pc' = "exit" /\ exc' = e

\* A call made by the body returned: the body goes on.
Continue == pc' = "body" /\ exc' = exc

\* The body may make another call on the recorder.
InBody == pc = "body" /\ nComplete + nFailed < MaxCalls

\* The body ends without an exception.
BodyReturns ==
    /\ pc = "body"
    /\ pc' = "exit"
    /\ exc' = "none"
    /\ UNCHANGED <<kind, experiment_id, trial_id, start_time, state, storage_id,
                   slot, releases, now, ticks, exitExc, nComplete, nFailed, sent,
                   exitValue, envVars>>

\* The work done in the body raises.
BodyRaises ==
    /\ pc = "body"
    /\ Propagate("BodyError")
    /\ UNCHANGED <<kind, experiment_id, trial_id, start_time, state, storage_id,
                   slot, releases, now, ticks, exitExc, nComplete, nFailed, sent,
                   exitValue, envVars>>

----------------------------------------------------------------------------
(* Decisions shared by the three classes (the same lines in each) *)

\* Variant: the assignment is forgotten.
AfterComplete_forgotten(st, ack) == st

\* Variant: the assignment comes before the headers check.
AfterComplete_eager(st, ack) == STATE_COMPLETED

\* self.state after complete's PUT: assigned only past the headers check.
AfterComplete(st, ack) == IF ack THEN STATE_COMPLETED ELSE st

\* Variant: the assignment comes before the headers check.
AfterFailed_eager(st, ack) == STATE_ERRORED

\* self.state after failed's PUT: assigned only past the headers check.
AfterFailed(st, ack) == IF ack THEN STATE_ERRORED ELSE st

\* Variant: the test of __exit__ is inverted.
ExitCallsFailed_inverted(st) == st = STATE_COMPLETED

\* Variant: __exit__ reports a failure only while the state is STATE_ACTIVE.
ExitCallsFailed_activeOnly(st) == st = STATE_ACTIVE

\* __exit__ returns early exactly when the state is STATE_COMPLETED.
ExitCallsFailed(st) == st # STATE_COMPLETED

\* Variant: __exit__ returns True.
ExitReturns_true == "True"

\* __exit__ returns None, by its bare return and by running off its end.
ExitReturns == "None"

----------------------------------------------------------------------------
(* CheckpointManager *)

CheckpointPath == "/api/v1/checkpoints"

\* The identifiers a storage manager may hand out.
StorageIds == {"uuid-a"}

CheckpointEnterBody ==
    [trial_id |-> trial_id,
     batch_number |-> 0,
     start_time |-> strftime(start_time),
     state |-> state,
     experiment_config |-> "experiment_config",
     experiment_id |-> experiment_id,
     hparams |-> "hparams"]

CheckpointCompleteBody(metadata) ==
    [uuid |-> metadata.storage_id,
     trial_id |-> trial_id,
     batch_number |-> 0,
     start_time |-> strftime(start_time),
     end_time |-> strftime(now),
     state |-> STATE_COMPLETED,
     experiment_config |-> "experiment_config",
     experiment_id |-> experiment_id,
     hparams |-> "hparams",
     resources |-> metadata.resources,
     metadata |-> metadata,
     determined_version |-> "version",
     framework |-> metadata.framework,
     format |-> metadata.format]

\* "format" is the builtin function of that name, not a checkpoint format.
CheckpointFailedBody ==
    [trial_id |-> trial_id,
     batch_number |-> 0,
     start_time |-> strftime(start_time),
     end_time |-> strftime(now),
     state |-> STATE_ERRORED,
     experiment_config |-> "experiment_config",
     experiment_id |-> experiment_id,
     hparams |-> "hparams",
     determined_version |-> "version",
     format |-> "builtin format"]

\* Variant: the POST is issued before the slot is acquired.
CheckpointManager_enter_postFirst ==
    /\ pc = "constructed"
    /\ kind = "checkpoint"
    /\ \E ack \in BOOLEAN :
        /\ sent' = Append(sent, Request("POST", CheckpointPath, CheckpointEnterBody, ack))
        /\ IF ~ack
             THEN /\ pc' = "enter_raised"
                  /\ exitExc' = "RemoteWriteError"
                  /\ UNCHANGED <<slot, storage_id>>
             ELSE \/ /\ slot' = "acquire_failed"
                     /\ pc' = "enter_raised"
                     /\ exitExc' = "StorageError"
                     /\ UNCHANGED storage_id
                  \/ \E sid \in StorageIds :
                     /\ slot' = "acquired"
                     /\ storage_id' = sid
                     /\ pc' = "body"
                     /\ exitExc' = "none"
    /\ UNCHANGED <<kind, experiment_id, trial_id, start_time, state, releases,
                   now, ticks, exc, nComplete, nFailed,
                   exitValue, envVars>>

\* next(self._storage_ctx) first, then the POST; either may end __enter__.
CheckpointManager_enter ==
    /\ pc = "constructed"
    /\ kind = "checkpoint"
    /\ \/ /\ slot' = "acquire_failed"
          /\ pc' = "enter_raised"
          /\ exitExc' = "StorageError"
          /\ UNCHANGED <<storage_id, sent>>
       \/ \E sid \in StorageIds, ack \in BOOLEAN :
          /\ slot' = "acquired"
          /\ storage_id' = sid
          /\ sent' = Append(sent, Request("POST", CheckpointPath, CheckpointEnterBody, ack))
          /\ pc' = IF ack THEN "body" ELSE "enter_raised"
          /\ exitExc' = IF ack THEN "none" ELSE "RemoteWriteError"
    /\ UNCHANGED <<kind, experiment_id, trial_id, start_time, state, releases,
                   now, ticks, exc, nComplete, nFailed,
                   exitValue, envVars>>

CheckpointManager_complete ==
    /\ InBody
    /\ kind = "checkpoint"
    /\ \E checkpoint_info \in CheckpointInfos, ack \in BOOLEAN :
        LET metadata == StorageMetadata(storage_id, ListDirectory(storage_id),
                                        Get(checkpoint_info, "framework", ""),
                                        Get(checkpoint_info, "format", ""))
        IN  /\ sent' = Append(sent, Request("PUT", CheckpointPath,
                                            CheckpointCompleteBody(metadata), ack))
            /\ state' = AfterComplete(state, ack)
            /\ IF ack THEN Continue ELSE Propagate("CompleteSendError")
    /\ nComplete' = nComplete + 1
    /\ UNCHANGED <<kind, experiment_id, trial_id, start_time, storage_id, slot,
                   releases, now, ticks, exitExc, nFailed,
                   exitValue, envVars>>

\* The PUT and the assignment of failed(), for its caller to complete.
CheckpointFailed(ack) ==
    /\ sent' = Append(sent, Request("PUT", CheckpointPath, CheckpointFailedBody, ack))
    /\ state' = AfterFailed(state, ack)

CheckpointManager_failed ==
    /\ InBody
    /\ kind = "checkpoint"
    /\ \E ack \in BOOLEAN :
        /\ CheckpointFailed(ack)
        /\ IF ack THEN Continue ELSE Propagate("FailedSendError")
    /\ nFailed' = nFailed + 1
    /\ UNCHANGED <<kind, experiment_id, trial_id, start_time, storage_id, slot,
                   releases, now, ticks, exitExc, nComplete,
                   exitValue, envVars>>

\* The second next(self._storage_ctx): StopIteration is the generator's
\* normal end, anything else is an error of the release itself.
ReleaseOutcomes == {"StopIteration", "StorageError"}

\* Variant: __exit__ does not resume the generator.
ExitRelease_skipped(r) == UNCHANGED <<slot, releases>>

ExitRelease(r) ==
    /\ slot' = IF r = "StopIteration" THEN "released" ELSE "release_error"
    /\ releases' = releases + 1

\* Variant: every exception of the release is swallowed.
CheckpointManager_exit_swallowAll ==
    /\ pc = "exit"
    /\ kind = "checkpoint"
    /\ pc' = "done"
    /\ \E r \in ReleaseOutcomes :
        /\ ExitRelease(r)
        /\ IF ~ExitCallsFailed(state)
             THEN /\ exitExc' = "none"
                  /\ UNCHANGED <<state, sent>>
             ELSE \E ack \in BOOLEAN :
                  /\ CheckpointFailed(ack)
                  /\ exitExc' = IF ack THEN "none" ELSE "RemoteWriteError"
    /\ exitValue' = IF exitExc' = "none" THEN ExitReturns ELSE "unset"
    /\ UNCHANGED <<kind, experiment_id, trial_id, start_time, storage_id, now, ticks,
                   exc, nComplete, nFailed, envVars>>

CheckpointManager_exit ==
    /\ pc = "exit"
    /\ kind = "checkpoint"
    /\ pc' = "done"
    /\ \E r \in ReleaseOutcomes :
        /\ ExitRelease(r)
        /\ IF r # "StopIteration"
             THEN /\ exitExc' = r
                  /\ UNCHANGED <<state, sent>>
             ELSE IF ~ExitCallsFailed(state)
                    THEN /\ exitExc' = "none"
                         /\ UNCHANGED <<state, sent>>
                    ELSE \E ack \in BOOLEAN :
                         /\ CheckpointFailed(ack)
                         /\ exitExc' = IF ack THEN "none" ELSE "RemoteWriteError"
    /\ exitValue' = IF exitExc' = "none" THEN ExitReturns ELSE "unset"
    /\ UNCHANGED <<kind, experiment_id, trial_id, start_time, storage_id, now, ticks,
                   exc, nComplete, nFailed,
                   envVars>>

----------------------------------------------------------------------------
(* TrainingMetricManager *)

TrainingPath == "/api/v1/training_metrics"

TrainingEnterBody ==
    [experiment_id |-> experiment_id,
     trial_id |-> trial_id,
     step_id |-> 0,
     start_batch |-> 0,
     end_batch |-> 0,
     start_time |-> strftime(start_time),
     state |-> state]

TrainingCompleteBody(metrics) ==
    [experiment_id |-> experiment_id,
     trial_id |-> trial_id,
     step_id |-> 0,
     start_batch |-> 0,
     end_batch |-> 0,
     start_time |-> strftime(start_time),
     end_time |-> strftime(now),
     state |-> STATE_COMPLETED,
     metrics |-> make_serializable(metrics)]

\* Variant: failed() reports self.state, as __enter__ does.
TrainingFailedBody_stale ==
    [experiment_id |-> experiment_id,
     trial_id |-> trial_id,
     step_id |-> 0,
     start_batch |-> 0,
     end_batch |-> 0,
     start_time |-> strftime(start_time),
     end_time |-> strftime(now),
     metrics |-> {},
     state |-> state]

TrainingFailedBody ==
    [experiment_id |-> experiment_id,
     trial_id |-> trial_id,
     step_id |-> 0,
     start_batch |-> 0,
     end_batch |-> 0,
     start_time |-> strftime(start_time),
     end_time |-> strftime(now),
     metrics |-> {},
     state |-> STATE_ERRORED]

\* Variant: an unacknowledged POST is sent once more.
TrainingMetricManager_enter_retry ==
    /\ pc = "constructed"
    /\ kind = "training"
    /\ \E ack \in BOOLEAN, again \in BOOLEAN :
        /\ sent' = IF ack
                     THEN Append(sent, Request("POST", TrainingPath, TrainingEnterBody, ack))
                     ELSE sent \o << Request("POST", TrainingPath, TrainingEnterBody, FALSE),
                                     Request("POST", TrainingPath, TrainingEnterBody, again) >>
        /\ pc' = IF ack \/ again THEN "body" ELSE "enter_raised"
        /\ exitExc' = IF ack \/ again THEN "none" ELSE "RemoteWriteError"
    /\ UNCHANGED <<kind, experiment_id, trial_id, start_time, state, storage_id,
                   slot, releases, now, ticks, exc, nComplete, nFailed,
                   exitValue, envVars>>

TrainingMetricManager_enter ==
    /\ pc = "constructed"
    /\ kind = "training"
    /\ \E ack \in BOOLEAN :
        /\ sent' = Append(sent, Request("POST", TrainingPath, TrainingEnterBody, ack))
        /\ pc' = IF ack THEN "body" ELSE "enter_raised"
        /\ exitExc' = IF ack THEN "none" ELSE "RemoteWriteError"
    /\ UNCHANGED <<kind, experiment_id, trial_id, start_time, state, storage_id,
                   slot, releases, now, ticks, exc, nComplete, nFailed,
                   exitValue, envVars>>

\* The record is built, metrics normalized, before the PUT is issued.
TrainingMetricManager_complete ==
    /\ InBody
    /\ kind = "training"
    /\ \E metrics \in MetricInputs :
        IF ~CanSerialize(metrics)
          THEN /\ Propagate("SerializationError")
               /\ UNCHANGED <<state, sent>>
          ELSE \E ack \in BOOLEAN :
               /\ sent' = Append(sent, Request("PUT", TrainingPath,
                                               TrainingCompleteBody(metrics), ack))
               /\ state' = AfterComplete(state, ack)
               /\ IF ack THEN Continue ELSE Propagate("CompleteSendError")
    /\ nComplete' = nComplete + 1
    /\ UNCHANGED <<kind, experiment_id, trial_id, start_time, storage_id, slot,
                   releases, now, ticks, exitExc, nFailed,
                   exitValue, envVars>>

\* The PUT and the assignment of failed(), for its caller to complete.
TrainingFailed(ack) ==
    /\ sent' = Append(sent, Request("PUT", TrainingPath, TrainingFailedBody, ack))
    /\ state' = AfterFailed(state, ack)

TrainingMetricManager_failed ==
    /\ InBody
    /\ kind = "training"
    /\ \E ack \in BOOLEAN :
        /\ TrainingFailed(ack)
        /\ IF ack THEN Continue ELSE Propagate("FailedSendError")
    /\ nFailed' = nFailed + 1
    /\ UNCHANGED <<kind, experiment_id, trial_id, start_time, storage_id, slot,
                   releases, now, ticks, exitExc, nComplete,
                   exitValue, envVars>>

TrainingMetricManager_exit ==
    /\ pc = "exit"
    /\ kind = "training"
    /\ pc' = "done"
    /\ IF ~ExitCallsFailed(state)
         THEN /\ exitExc' = "none"
              /\ UNCHANGED <<state, sent>>
         ELSE \E ack \in BOOLEAN :
              /\ TrainingFailed(ack)
              /\ exitExc' = IF ack THEN "none" ELSE "RemoteWriteError"
    /\ exitValue' = IF exitExc' = "none" THEN ExitReturns ELSE "unset"
    /\ UNCHANGED <<kind, experiment_id, trial_id, start_time, storage_id, slot,
                   releases, now, ticks, exc, nComplete, nFailed,
                   envVars>>

----------------------------------------------------------------------------
(* ValidationMetricManager *)

ValidationPath == "/api/v1/validation_metrics"

ValidationEnterBody ==
    [trial_id |-> trial_id,
     total_batches |-> 0,
     start_time |-> strftime(start_time),
     state |-> state]

ValidationCompleteBody(metrics) ==
    [experiment_id |-> experiment_id,
     trial_id |-> trial_id,
     total_batches |-> 0,
     start_time |-> strftime(start_time),
     end_time |-> strftime(now),
     state |-> STATE_COMPLETED,
     metrics |-> make_serializable(metrics)]

\* Variant: failed() sends no metrics field.
ValidationFailedBody_noMetrics ==
    [experiment_id |-> experiment_id,
     trial_id |-> trial_id,
     total_batches |-> 0,
     start_time |-> strftime(start_time),
     end_time |-> strftime(now),
     state |-> STATE_ERRORED]

ValidationFailedBody ==
    [experiment_id |-> experiment_id,
     trial_id |-> trial_id,
     total_batches |-> 0,
     start_time |-> strftime(start_time),
     end_time |-> strftime(now),
     metrics |-> {},
     state |-> STATE_ERRORED]

ValidationMetricManager_enter ==
    /\ pc = "constructed"
    /\ kind = "validation"
    /\ \E ack \in BOOLEAN :
        /\ sent' = Append(sent, Request("POST", ValidationPath, ValidationEnterBody, ack))
        /\ pc' = IF ack THEN "body" ELSE "enter_raised"
        /\ exitExc' = IF ack THEN "none" ELSE "RemoteWriteError"
    /\ UNCHANGED <<kind, experiment_id, trial_id, start_time, state, storage_id,
                   slot, releases, now, ticks, exc, nComplete, nFailed,
                   exitValue, envVars>>

\* The record is built, metrics normalized, before the PUT is issued.
ValidationMetricManager_complete ==
    /\ InBody
    /\ kind = "validation"
    /\ \E metrics \in MetricInputs :
        IF ~CanSerialize(metrics)
          THEN /\ Propagate("SerializationError")
               /\ UNCHANGED <<state, sent>>
          ELSE \E ack \in BOOLEAN :
               /\ sent' = Append(sent, Request("PUT", ValidationPath,
                                               ValidationCompleteBody(metrics), ack))
               /\ state' = AfterComplete(state, ack)
               /\ IF ack THEN Continue ELSE Propagate("CompleteSendError")
    /\ nComplete' = nComplete + 1
    /\ UNCHANGED <<kind, experiment_id, trial_id, start_time, storage_id, slot,
                   releases, now, ticks, exitExc, nFailed,
                   exitValue, envVars>>

\* The PUT and the assignment of failed(), for its caller to complete.
ValidationFailed(ack) ==
    /\ sent' = Append(sent, Request("PUT", ValidationPath, ValidationFailedBody, ack))
    /\ state' = AfterFailed(state, ack)

ValidationMetricManager_failed ==
    /\ InBody
    /\ kind = "validation"
    /\ \E ack \in BOOLEAN :
        /\ ValidationFailed(ack)
        /\ IF ack THEN Continue ELSE Propagate("FailedSendError")
    /\ nFailed' = nFailed + 1
    /\ UNCHANGED <<kind, experiment_id, trial_id, start_time, storage_id, slot,
                   releases, now, ticks, exitExc, nComplete,
                   exitValue, envVars>>

ValidationMetricManager_exit ==
    /\ pc = "exit"
    /\ kind = "validation"
    /\ pc' = "done"
    /\ IF ~ExitCallsFailed(state)
         THEN /\ exitExc' = "none"
              /\ UNCHANGED <<state, sent>>
         ELSE \E ack \in BOOLEAN :
              /\ ValidationFailed(ack)
              /\ exitExc' = IF ack THEN "none" ELSE "RemoteWriteError"
    /\ exitValue' = IF exitExc' = "none" THEN ExitReturns ELSE "unset"
    /\ UNCHANGED <<kind, experiment_id, trial_id, start_time, storage_id, slot,
                   releases, now, ticks, exc, nComplete, nFailed,
                   envVars>>

----------------------------------------------------------------------------
(* The specification *)

Next ==
    \/ Tick
    \/ BodyReturns
    \/ BodyRaises
    \/ CheckpointManager_enter
    \/ CheckpointManager_complete
    \/ CheckpointManager_failed
    \/ CheckpointManager_exit
    \/ TrainingMetricManager_enter
    \/ TrainingMetricManager_complete
    \/ TrainingMetricManager_failed
    \/ TrainingMetricManager_exit
    \/ ValidationMetricManager_enter
    \/ ValidationMetricManager_complete
    \/ ValidationMetricManager_failed
    \/ ValidationMetricManager_exit

Spec == Init /\ [][Next]_vars

----------------------------------------------------------------------------
(* EnvContext: the batch sizes (harness/determined/_env_context.py) *)

MaxGlobalBatchSize == 17
MaxSlotsPerTrial == 4

\* A hyperparameter value with its Python type.
IntV(n) == [type |-> "int", val |-> n]

\* The values the global_batch_size hyperparameter may hold: integers (also
\* zero and negative ones), and a string, a float and a bool.
GlobalBatchSizeValues ==
    { IntV(n) : n \in -1..MaxGlobalBatchSize }
        \cup { [type |-> "str", val |-> 16], [type |-> "float", val |-> 16],
               [type |-> "bool", val |-> 1] }

\* The hyperparameter mappings: global_batch_size and batch_size, each
\* present or absent.
HparamsInputs ==
    UNION { [D -> {IntV(8)}] : D \in SUBSET {"batch_size"} }
        \cup
    UNION { { [k \in D \cup {"global_batch_size"} |->
                 IF k = "global_batch_size" THEN g ELSE IntV(8)] :
              g \in GlobalBatchSizeValues } : D \in SUBSET {"batch_size"} }

\* check.is_instance(value, int, ...): isinstance, which a bool passes.
IsInstanceInt(v) == v.type \in {"int", "bool"}

\* What _calculate_batch_sizes does: the exception it raises ("none": it
\* returns), the tuple it returns and the warnings it logs.
Raised(e, w) == [error |-> e, sizes |-> <<>>, warnings |-> w]

Returned(per, effective, w) ==
    [error |-> "none", sizes |-> <<per, effective>>, warnings |-> w]

\* Variant: the operands of the comparison are exchanged.
TooSmall_exchanged(global_batch_size, slots) == slots < global_batch_size

\* global_batch_size < slots_per_trial
TooSmall(global_batch_size, slots) == global_batch_size < slots

\* Variant: the per-slot size is rounded up.
PerGpuBatchSize_roundedUp(global_batch_size, slots) ==
    (global_batch_size + slots - 1) \div slots

\* global_batch_size // slots_per_trial, for slots_per_trial # 0
PerGpuBatchSize(global_batch_size, slots) == global_batch_size \div slots

EffectiveBatchSize(per_gpu_batch_size, slots) == per_gpu_batch_size * slots

\* Variant: the warning is logged whenever the sizes are computed.
RoundingWarned_always(effective_batch_size, global_batch_size) == TRUE

\* effective_batch_size != global_batch_size
RoundingWarned(effective_batch_size, global_batch_size) ==
    effective_batch_size # global_batch_size

\* The part of _calculate_batch_sizes past the native-parallel return.
ConfigureBatchSizes(global_batch_size, slots, w) ==
    IF TooSmall(global_batch_size, slots)
      THEN Raised("AssertionError", w)
    ELSE IF slots = 0
      THEN Raised("ZeroDivisionError", w)
    ELSE LET per_gpu_batch_size == PerGpuBatchSize(global_batch_size, slots)
             effective_batch_size == EffectiveBatchSize(per_gpu_batch_size, slots)
         IN  Returned(per_gpu_batch_size, effective_batch_size,
                      IF RoundingWarned(effective_batch_size, global_batch_size)
                        THEN w \cup {"global_batch_size changed"}
                        ELSE w)

\* Variant: the native-parallel return comes before the checks of the
\* hyperparameter.
_calculate_batch_sizes_nativeFirst(hp, native, slots) ==
    IF native
      THEN Returned(Get(hp, "global_batch_size", IntV(0)).val,
                    Get(hp, "global_batch_size", IntV(0)).val, {})
    ELSE IF "global_batch_size" \notin DOMAIN hp
      THEN Raised("AssertionError", {})
    ELSE LET w == IF "batch_size" \in DOMAIN hp
                    THEN {"use global_batch_size"} ELSE {}
             global_batch_size == hp["global_batch_size"]
         IN  IF ~IsInstanceInt(global_batch_size)
               THEN Raised("CheckFailedError", w)
             ELSE ConfigureBatchSizes(global_batch_size.val, slots, w)

\* Variant: the native-parallel return comes after the size requirement.
_calculate_batch_sizes_nativeLast(hp, native, slots) ==
    IF "global_batch_size" \notin DOMAIN hp
      THEN Raised("AssertionError", {})
    ELSE LET w == IF "batch_size" \in DOMAIN hp
                    THEN {"use global_batch_size"} ELSE {}
             global_batch_size == hp["global_batch_size"]
         IN  IF ~IsInstanceInt(global_batch_size)
               THEN Raised("CheckFailedError", w)
             ELSE IF TooSmall(global_batch_size.val, slots)
               THEN Raised("AssertionError", w)
             ELSE IF native
               THEN Returned(global_batch_size.val, global_batch_size.val, w)
             ELSE ConfigureBatchSizes(global_batch_size.val, slots, w)

_calculate_batch_sizes(hp, native, slots) ==
    IF "global_batch_size" \notin DOMAIN hp
      THEN Raised("AssertionError", {})
    ELSE LET w == IF "batch_size" \in DOMAIN hp
                    THEN {"use global_batch_size"} ELSE {}
             global_batch_size == hp["global_batch_size"]
         IN  IF ~IsInstanceInt(global_batch_size)
               THEN Raised("CheckFailedError", w)
             ELSE IF native
               THEN Returned(global_batch_size.val, global_batch_size.val, w)
             ELSE ConfigureBatchSizes(global_batch_size.val, slots, w)

\* No recorder exists while the worker context is being constructed.
RecorderAbsent ==
    /\ kind = "training"
    /\ experiment_id = 1
    /\ trial_id = 1
    /\ now = 0
    /\ ticks = 0
    /\ start_time = 0
    /\ state = STATE_ACTIVE
    /\ storage_id = "unset"
    /\ slot = "absent"
    /\ releases = 0
    /\ pc = "absent"
    /\ exc = "none"
    /\ exitExc = "none"
    /\ exitValue = "unset"
    /\ nComplete = 0
    /\ nFailed = 0
    /\ sent = <<>>

\* EnvContext.__init__ has stored its arguments and is about to compute the
\* batch sizes.
EnvInit ==
    /\ RecorderAbsent
    /\ hparams \in HparamsInputs
    /\ native_parallel \in BOOLEAN
    /\ slots_per_trial \in 0..MaxSlotsPerTrial
    /\ env_pc = "constructing"
    /\ env_error = "none"
    /\ batch_sizes = <<>>
    /\ warnings = {}

\* self._per_slot_batch_size, self._global_batch_size =
\*     self._calculate_batch_sizes()
EnvContext_init ==
    /\ env_pc = "constructing"
    /\ LET r == _calculate_batch_sizes(hparams, native_parallel, slots_per_trial)
       IN  /\ env_error' = r.error
           /\ batch_sizes' = r.sizes
           /\ warnings' = r.warnings
           /\ env_pc' = IF r.error = "none" THEN "constructed" ELSE "raised"
    /\ UNCHANGED <<hparams, native_parallel, slots_per_trial, recorderVars>>

EnvNext == EnvContext_init

EnvSpec == EnvInit /\ [][EnvNext]_vars

----------------------------------------------------------------------------
(* Vocabulary of the properties *)

Terminal == {STATE_COMPLETED, STATE_ERRORED}

Last(s) == s[Len(s)]

\* Order of two formatted timestamps (the text order of the fixed-width form).
TimeLeq(a, b) == a[1] < b[1] \/ (a[1] = b[1] /\ a[2] <= b[2])

IsPut(m, st) == m.method = "PUT" /\ m.body.state = st

\* The state of the record at the master: that of the last acknowledged request.
RECURSIVE RemoteStateUpTo(_)
RemoteStateUpTo(n) ==
    IF n = 0 THEN "absent"
    ELSE IF sent[n].ack THEN sent[n].body.state
    ELSE RemoteStateUpTo(n - 1)

RemoteState == RemoteStateUpTo(Len(sent))

AllAcknowledged == \A i \in 1..Len(sent) : sent[i].ack

\* The last request is an Errored PUT whose end_time is not before its start_time.
LastIsErroredPut ==
    /\ sent # <<>>
    /\ IsPut(Last(sent), STATE_ERRORED)
    /\ TimeLeq(Last(sent).body.start_time, Last(sent).body.end_time)

\* Steps of the with statement.
ExitStep == pc = "exit" /\ pc' = "done"

CompleteSendFailsStep == pc = "body" /\ pc' = "exit" /\ exc' = "CompleteSendError"

\* The body's call of complete() issues its PUT, which is not acknowledged.
CompleteUnacknowledgedStep ==
    /\ pc = "body"
    /\ Len(sent') = Len(sent) + 1
    /\ IsPut(Last(sent'), STATE_COMPLETED)
    /\ ~Last(sent').ack

SerializationFailsStep == pc = "body" /\ pc' = "exit" /\ exc' = "SerializationError"

\* The step issues exactly one request, an Errored PUT.
OneErroredPut ==
    /\ Len(sent') = Len(sent) + 1
    /\ SubSeq(sent', 1, Len(sent)) = sent
    /\ IsPut(Last(sent'), STATE_ERRORED)

----------------------------------------------------------------------------
(* C1 *)

----------------------------------------------------------------------------
(* C2 *)

SuccessfulScope == pc = "done" /\ exc = "none" /\ AllAcknowledged

OnePostThenOnePut ==
    /\ Len(sent) = 2
    /\ sent[1].method = "POST"
    /\ sent[1].body.state = STATE_ACTIVE
    /\ sent[2].method = "PUT"
    /\ sent[2].body.state \in Terminal
    /\ (sent[2].body.state = STATE_COMPLETED <=> nComplete >= 1)

\* C2 as stated: in every scope where open succeeds, the body does not raise
\* and every send is acknowledged, exactly one Active POST is followed by
\* exactly one terminal PUT, Completed iff complete() was called.
C2_SuccessfulScopeOnePostOnePut ==
    SuccessfulScope => OnePostThenOnePut

\* C2 amended: the same, for scopes whose body calls complete() at most once
\* and never calls failed() itself, and whose __exit__ does not raise (the
\* checkpoint's slot release succeeds).
C2_SingleCompleteOnePostOnePut ==
    (SuccessfulScope /\ exitExc = "none" /\ nComplete <= 1 /\ nFailed = 0)
        => OnePostThenOnePut

C2_Witness ==
    /\ SuccessfulScope
    /\ exitExc = "none"
    /\ nComplete = 1
    /\ nFailed = 0
    /\ Len(sent) = 2
    /\ IsPut(sent[2], STATE_COMPLETED)

----------------------------------------------------------------------------
(* C3 *)

BodyRaisedOrCompleteSendFailed == exc \in {"BodyError", "CompleteSendError"}

----------------------------------------------------------------------------
(* C4 *)

\* C4: the in-memory state only ever moves Active -> Completed or
\* Active -> Errored; a Completed or Errored state is never changed by a
\* later complete(), failed() or scope exit.
C4_StateMonotonic ==
    [][state' # state => (state = STATE_ACTIVE /\ state' \in Terminal)]_vars

----------------------------------------------------------------------------
(* C5 *)

\* complete() on an Active recorder, its PUT not acknowledged: complete
\* raises, a Completed PUT went out unacknowledged, the state is still Active.
CompleteFailureKeepsActive ==
    (CompleteUnacknowledgedStep /\ state = STATE_ACTIVE)
        => /\ CompleteSendFailsStep
           /\ state' = STATE_ACTIVE

ExitAfterCompleteFailure ==
    ExitStep /\ exc = "CompleteSendError" /\ state = STATE_ACTIVE

----------------------------------------------------------------------------
(* C6 *)

----------------------------------------------------------------------------
(* C7 *)

\* C7: a checkpoint's slot is acquired before the Active POST; when the
\* acquisition fails, __enter__ raises and no request (POST or PUT) is ever
\* issued for the recorder.
C7_NoRecordWithoutSlot ==
    kind = "checkpoint" =>
        /\ (slot = "acquire_failed" =>
               sent = <<>> /\ pc = "enter_raised" /\ exitExc = "StorageError")
        /\ (sent # <<>> => slot \notin {"created", "acquire_failed"})

C7_Witness ==
    /\ kind = "checkpoint"
    /\ slot = "acquire_failed"
    /\ pc = "enter_raised"
    /\ sent = <<>>

----------------------------------------------------------------------------
(* C8 *)

\* C8: a checkpoint scope holds its slot, unreleased, for as long as its body
\* runs, and once the scope has exited the slot has been released exactly
\* once, whether or not the terminal PUT was acknowledged.
C8_SlotReleasedOnceOnExit ==
    kind = "checkpoint" =>
        /\ (pc \in {"body", "exit"} => slot = "acquired" /\ releases = 0)
        /\ (pc = "done" => slot \in {"released", "release_error"} /\ releases = 1)

C8_Witness ==
    /\ kind = "checkpoint"
    /\ pc = "done"
    /\ slot = "released"
    /\ releases = 1
    /\ Last(sent).method = "PUT"
    /\ ~Last(sent).ack

----------------------------------------------------------------------------
(* C9 *)

\* C9: when a checkpoint's __enter__ acquires the slot and then fails because
\* the Active POST is not acknowledged, the slot is still released; it is
\* never left acquired after __enter__ has raised.
C9_SlotReleasedWhenEnterFails ==
    (kind = "checkpoint" /\ pc = "enter_raised") => slot # "acquired"

----------------------------------------------------------------------------
(* C10 *)

\* C10: in a metric scope, complete() with metrics that cannot be normalized
\* raises before any PUT is sent and leaves the state as it was (Active); the
\* record then sent on exit is one Errored PUT with an empty metrics mapping.
C10_UnserializableMetricsEndErrored ==
    [][/\ (SerializationFailsStep =>
              /\ kind \in {"training", "validation"}
              /\ sent' = sent
              /\ state' = state)
       /\ ((ExitStep /\ exc = "SerializationError" /\ state = STATE_ACTIVE) =>
              /\ OneErroredPut
              /\ "metrics" \in DOMAIN Last(sent').body
              /\ Last(sent').body.metrics = {})]_vars

C10_Witness ==
    /\ pc = "done"
    /\ exc = "SerializationError"
    /\ nComplete = 1
    /\ nFailed = 0
    /\ Len(sent) = 2
    /\ IsPut(sent[2], STATE_ERRORED)
    /\ sent[2].body.metrics = {}

----------------------------------------------------------------------------
(* Vocabulary of the batch-size properties *)

\* EnvContext.__init__ has finished, by returning or by raising.
EnvDone == env_pc \in {"constructed", "raised"}

GlobalBatchSizePresent == "global_batch_size" \in DOMAIN hparams

GlobalBatchSizeIsInt ==
    GlobalBatchSizePresent /\ IsInstanceInt(hparams["global_batch_size"])

GlobalBatchSize == hparams["global_batch_size"].val

RoundingWarningLogged == "global_batch_size changed" \in warnings

\* The sizes returned are the floor partition of the global batch size: the
\* effective size is the per-slot size times the slots, and is the largest
\* such multiple not above the global batch size.
ReturnedFloorPartition ==
    /\ env_pc = "constructed"
    /\ batch_sizes[2] = batch_sizes[1] * slots_per_trial
    /\ batch_sizes[2] <= GlobalBatchSize
    /\ GlobalBatchSize - batch_sizes[2] < slots_per_trial

----------------------------------------------------------------------------
(* C11 *)

\* C11 as stated: for every integer globalBatchSize and slotsPerTrial with
\* native-parallel disabled and globalBatchSize >= slotsPerTrial, the
\* computation returns perWorker = floor(globalBatchSize / slotsPerTrial) and
\* effective = perWorker * slotsPerTrial (a multiple of slotsPerTrial, at most
\* globalBatchSize and less than slotsPerTrial below it).
C11_FloorPartitionForEverySlots ==
    (/\ EnvDone
     /\ GlobalBatchSizeIsInt
     /\ ~native_parallel
     /\ GlobalBatchSize >= slots_per_trial)
        => ReturnedFloorPartition

\* C11 amended: the same for slotsPerTrial >= 1; with slotsPerTrial = 0 and
\* globalBatchSize >= 0 the floor division raises ZeroDivisionError and no
\* partition is returned.
C11_FloorPartitionForPositiveSlots ==
    (/\ EnvDone
     /\ GlobalBatchSizeIsInt
     /\ ~native_parallel
     /\ slots_per_trial >= 1
     /\ GlobalBatchSize >= slots_per_trial)
        => ReturnedFloorPartition

C11_Witness ==
    /\ env_pc = "constructed"
    /\ ~native_parallel
    /\ GlobalBatchSizeIsInt
    /\ GlobalBatchSize = 17
    /\ slots_per_trial = 4
    /\ batch_sizes = <<4, 16>>

----------------------------------------------------------------------------
(* C12 *)

\* C12: with native-parallel disabled, whenever globalBatchSize <
\* slotsPerTrial the computation fails with a configuration error and returns
\* no partition; it never returns a per-worker batch size of 0.
C12_TooSmallBatchSizeFails ==
    (EnvDone /\ GlobalBatchSizeIsInt /\ ~native_parallel) =>
        /\ (GlobalBatchSize < slots_per_trial =>
               /\ env_pc = "raised"
               /\ env_error = "AssertionError"
               /\ batch_sizes = <<>>)
        /\ (env_pc = "constructed" => batch_sizes[1] # 0)

C12_Witness ==
    /\ env_pc = "raised"
    /\ ~native_parallel
    /\ GlobalBatchSizeIsInt
    /\ GlobalBatchSize = 3
    /\ slots_per_trial = 4
    /\ env_error = "AssertionError"
    /\ batch_sizes = <<>>

----------------------------------------------------------------------------
(* C13 *)

\* C13: with native-parallel enabled and globalBatchSize a present integer,
\* the computation returns (globalBatchSize, globalBatchSize) for every
\* slotsPerTrial: no size requirement, no rounding.
C13_NativeParallelUnchanged ==
    (EnvDone /\ GlobalBatchSizeIsInt /\ native_parallel) =>
        /\ env_pc = "constructed"
        /\ batch_sizes = <<GlobalBatchSize, GlobalBatchSize>>
        /\ ~RoundingWarningLogged

C13_Witness ==
    /\ env_pc = "constructed"
    /\ native_parallel
    /\ GlobalBatchSizeIsInt
    /\ GlobalBatchSize = 3
    /\ slots_per_trial = 4
    /\ batch_sizes = <<3, 3>>

----------------------------------------------------------------------------
(* C14 *)

\* C14: the computation fails with a configuration error whenever the
\* global_batch_size hyperparameter is absent or not of integer type, in
\* native-parallel mode as well, and produces no partition.
C14_MissingOrNonIntBatchSizeFails ==
    (EnvDone /\ ~GlobalBatchSizeIsInt) =>
        /\ env_pc = "raised"
        /\ env_error = IF GlobalBatchSizePresent
                         THEN "CheckFailedError" ELSE "AssertionError"
        /\ batch_sizes = <<>>

C14_Witness ==
    /\ env_pc = "raised"
    /\ native_parallel
    /\ GlobalBatchSizePresent
    /\ hparams["global_batch_size"].type = "str"
    /\ env_error = "CheckFailedError"
    /\ batch_sizes = <<>>

----------------------------------------------------------------------------
(* C19 *)

\* C19: with native-parallel disabled and globalBatchSize >= slotsPerTrial,
\* the rounding warning is logged if and only if the effective size differs
\* from globalBatchSize, that is, globalBatchSize is not a multiple of
\* slotsPerTrial; the warning is not an error: the partition is returned.
C19_WarningIffRounded ==
    /\ (/\ env_pc = "constructed"
        /\ GlobalBatchSizeIsInt
        /\ ~native_parallel
        /\ GlobalBatchSize >= slots_per_trial)
          => /\ (RoundingWarningLogged <=> batch_sizes[2] # GlobalBatchSize)
             /\ (RoundingWarningLogged <=> GlobalBatchSize % slots_per_trial # 0)
    /\ RoundingWarningLogged =>
          /\ env_pc = "constructed"
          /\ env_error = "none"
          /\ batch_sizes # <<>>

C19_Witness ==
    /\ env_pc = "constructed"
    /\ ~native_parallel
    /\ GlobalBatchSize = 17
    /\ slots_per_trial = 4
    /\ RoundingWarningLogged
    /\ batch_sizes = <<4, 16>>

----------------------------------------------------------------------------
(* C15 *)

\* C15: a checkpoint's scope exit performs the slot release first: a release
\* that ends with StopIteration is swallowed and exit goes on to the state
\* check (no PUT if Completed, an Errored PUT otherwise); any other error of
\* the release propagates out of exit before the state is inspected and
\* before any PUT is issued.
C15_ReleaseBeforeTerminalCheck ==
    [][(ExitStep /\ kind = "checkpoint") =>
          /\ releases' = releases + 1
          /\ slot' \in {"released", "release_error"}
          /\ (slot' = "release_error" =>
                 /\ exitExc' = "StorageError"
                 /\ sent' = sent
                 /\ state' = state)
          /\ (slot' = "released" =>
                 /\ exitExc' # "StorageError"
                 /\ IF state = STATE_COMPLETED THEN sent' = sent
                                               ELSE OneErroredPut)]_vars

C15_Witness ==
    /\ kind = "checkpoint"
    /\ pc = "done"
    /\ slot = "release_error"
    /\ exitExc = "StorageError"
    /\ state = STATE_ACTIVE
    /\ Len(sent) = 1

----------------------------------------------------------------------------
(* C16 *)

\* The fields that carry a result.
PayloadFields ==
    IF kind = "checkpoint"
      THEN {"uuid", "resources", "metadata", "framework", "format"}
      ELSE {"metrics"}

\* C16: result payload is present only in Completed records: an Active POST
\* and an Errored PUT carry none of uuid, resources, metadata, framework,
\* format (checkpoint), an empty metrics mapping (Errored metric record) or no
\* metrics field (Active metric record); a Completed PUT carries them.
C16_PayloadOnlyWhenCompleted ==
    \A i \in 1..Len(sent) :
        LET body == sent[i].body
        IN  IF body.state = STATE_COMPLETED
              THEN PayloadFields \subseteq DOMAIN body
            ELSE IF kind = "checkpoint"
              THEN PayloadFields \cap DOMAIN body = {}
            ELSE IF body.state = STATE_ERRORED
              THEN "metrics" \in DOMAIN body /\ body.metrics = {}
            ELSE "metrics" \notin DOMAIN body

----------------------------------------------------------------------------
(* C17 *)

\* The identifying key of each kind of record, from the instance's fields.
RecordKey ==
    IF kind = "training"
      THEN [experiment_id |-> experiment_id, trial_id |-> trial_id,
            step_id |-> 0, start_batch |-> 0, end_batch |-> 0]
    ELSE IF kind = "validation"
      THEN [experiment_id |-> experiment_id, trial_id |-> trial_id,
            total_batches |-> 0]
    ELSE [trial_id |-> trial_id, batch_number |-> 0]

\* C17: every record one recorder sends, the POST and every PUT, carries the
\* complete identifying key of its kind, with the same values.
C17_EveryRecordCarriesKey ==
    \A i \in 1..Len(sent) :
        /\ DOMAIN RecordKey \subseteq DOMAIN sent[i].body
        /\ \A f \in DOMAIN RecordKey : sent[i].body[f] = RecordKey[f]

----------------------------------------------------------------------------
(* C18 *)

\* The operation that issued the last request raises to its caller.
RaisesAtOnce ==
    \/ pc = "constructed" /\ pc' = "enter_raised" /\ exitExc' = "RemoteWriteError"
    \/ pc = "body" /\ pc' = "exit" /\ exc' \in {"CompleteSendError", "FailedSendError"}
    \/ pc = "exit" /\ pc' = "done" /\ exitExc' = "RemoteWriteError"

Count(method) == Cardinality({i \in 1..Len(sent) : sent[i].method = method})

\* At most one POST, and at most one PUT for each complete() or failed()
\* invocation (those of the body, and the one of scope exit).
AtMostOneRequestPerInvocation ==
    /\ Count("POST") <= 1
    /\ Count("PUT") <= nComplete + nFailed + (IF pc = "done" THEN 1 ELSE 0)

\* C18: no operation retries a send: each invocation of open, complete or
\* failed issues at most one request, and when that request is not
\* acknowledged the operation raises at once without issuing it again.
C18_NoRetry ==
    [][/\ Len(sent') <= Len(sent) + 1
       /\ (Len(sent') = Len(sent) + 1 =>
              /\ SubSeq(sent', 1, Len(sent)) = sent
              /\ (~Last(sent').ack => RaisesAtOnce))
       /\ AtMostOneRequestPerInvocation']_vars

C18_Witness ==
    /\ pc = "enter_raised"
    /\ exitExc = "RemoteWriteError"
    /\ Len(sent) = 1
    /\ sent[1].method = "POST"
    /\ ~sent[1].ack

----------------------------------------------------------------------------
(* C20 *)

\* The with statement suppresses the body's exception exactly when __exit__
\* returns a true value.
Suppresses(v) == v \notin {"None", "unset"}

\* The exception that leaves the with statement: the one __exit__ raised, or
\* else the body's unless suppressed.
LeavesWith ==
    IF exitExc # "none" THEN exitExc
    ELSE IF exc # "none" /\ ~Suppresses(exitValue) THEN exc
    ELSE "none"

\* C20: scope exit never suppresses an error: an exception of the body (or of
\* complete) still reaches the caller when the Errored PUT was acknowledged,
\* and an Errored PUT of exit that is not acknowledged makes exit raise; in
\* no scope are both failures hidden from the caller.
C20_ExitNeverSuppresses ==
    [][ExitStep =>
          /\ ((Len(sent') = Len(sent) + 1 /\ ~Last(sent').ack) =>
                 exitExc' = "RemoteWriteError")
          /\ (exitExc' = "none" => ~Suppresses(exitValue'))
          /\ ((exc # "none" \/ exitExc' # "none") => LeavesWith' # "none")
          /\ ((exc # "none" /\ exitExc' = "none") => LeavesWith' = exc)]_vars

C20_Witness ==
    /\ pc = "done"
    /\ exc = "BodyError"
    /\ exitExc = "none"
    /\ IsPut(Last(sent), STATE_ERRORED)
    /\ Last(sent).ack
    /\ LeavesWith = "BodyError"

----------------------------------------------------------------------------
(* C21 *)

\* Some PUT carrying state st was acknowledged.
AcknowledgedPut(st) ==
    \E i \in 1..Len(sent) : IsPut(sent[i], st) /\ sent[i].ack

\* The step issues one PUT, which is not acknowledged.
UnacknowledgedPutStep ==
    /\ Len(sent') = Len(sent) + 1
    /\ Last(sent').method = "PUT"
    /\ ~Last(sent').ack

\* C21: the in-memory state never runs ahead of the master: a Completed
\* (Errored) in-memory state implies that a Completed (Errored) PUT was
\* acknowledged, the state changes only in the step whose PUT for the new
\* state is acknowledged, and a PUT that is not acknowledged, of complete()
\* or of failed(), leaves the state unchanged.
C21_StateNeverAheadOfRemote ==
    /\ [](state \in Terminal => AcknowledgedPut(state))
    /\ [][/\ (UnacknowledgedPutStep => state' = state)
          /\ (state' # state =>
                 /\ Len(sent') = Len(sent) + 1
                 /\ IsPut(Last(sent'), state')
                 /\ Last(sent').ack)]_vars

C21_Witness ==
    /\ pc = "done"
    /\ state = STATE_COMPLETED
    /\ AcknowledgedPut(STATE_COMPLETED)
    /\ IsPut(Last(sent), STATE_ERRORED)
    /\ ~Last(sent).ack
    /\ exc = "FailedSendError"

====
